---------------------------- MODULE Spec2Model ----------------------------
(***************************************************************************)
(* Simulation boxes of turtlemd (turtlemd/system/box.py): the orthogonal   *)
(* Box and the TriclinicBox, their construction, the rebuild of the        *)
(* triclinic cell matrix and the periodic-boundary operations.             *)
(*                                                                         *)
(* Numbers.  The floats of the source are modelled by exact arithmetic on  *)
(* an integer grid: every coordinate, bound and length is an integer       *)
(* number of grid units, and a quotient is kept as a fraction              *)
(* [num, den].  Inputs are drawn from values for which every intermediate  *)
(* result of the source is exactly such a number (lengths are positive,    *)
(* the cosines are the rational ones of Cos, square roots are taken of     *)
(* perfect squares).  Floating-point rounding error is not modelled.       *)
(*                                                                         *)
(* Indices are 1-based here and 0-based in the source: box_matrix[i][j]    *)
(* is box_matrix[i-1, j-1] of the source.                                  *)
(***************************************************************************)
EXTENDS Integers, Sequences, FiniteSets, TLC

VARIABLES
    cls,                 \* class of the object under construction / built
    raised,              \* the exception the last operation ended with
    dim, periodic, dof, low, high, length, ilength, box_matrix,
    alpha, beta, gamma,
    box_matrix_inv, translations, shortest_width, shortest_width_half,
    call                 \* the last operation: its name, arguments, result

baseVars == <<dim, periodic, dof, low, high, length, ilength>>
triVars == <<alpha, beta, gamma, box_matrix_inv, translations,
             shortest_width, shortest_width_half>>
vars == <<cls, raised, baseVars, box_matrix, triVars, call>>

---------------------------------------------------------------------------
(* Bounds of the model *)

\* coordinates of positions and displacement vectors lie in -MaxCoord..MaxCoord
MaxCoord == 3
\* a batch of positions / displacement vectors has 1..MaxRows rows
MaxRows == 2

\* float("inf"): larger than every finite number of the model
Inf == 1000000

---------------------------------------------------------------------------
(* Values *)

\* Python's None for an omitted argument; also an attribute not yet set.
None == << >>
\* an optional scalar argument that is given
Some(x) == << x >>

NoError == "none"
InconsistentDims == "ValueError: Inconsistent box dimensions for low/high/periodic!"
NotTriclinic == "ValueError: Not a valid triclinic box."
SingularMatrix == "LinAlgError: Singular matrix"

Abs(x) == IF x < 0 THEN -x ELSE x

Range(s) == {s[i] : i \in DOMAIN s}

IsFinite(x) == x # Inf /\ x # -Inf

\* a fraction num/den with den > 0
Frac(n, d) == [num |-> n, den |-> d]

\* high - low on floats that may be infinite (never inf - inf here)
FloatSub(x, y) ==
    IF x = Inf \/ y = -Inf THEN Inf
    ELSE IF x = -Inf \/ y = Inf THEN -Inf
    ELSE x - y

\* 1.0 / x
FloatInv(x) == IF IsFinite(x) THEN Frac(1, x) ELSE Frac(0, 1)

\* np.floor(n / d), d > 0
Floor(n, d) == n \div d

\* variant of Rint: a half is rounded away from zero
RintHalfAway(n, d) ==
    IF n >= 0 THEN (2 * n + d) \div (2 * d) ELSE -((2 * (-n) + d) \div (2 * d))

\* np.rint(n / d), d > 0: to the nearest integer, a half to the even one
Rint(n, d) ==
    LET q == n \div d
        r == n - q * d
    IN  IF 2 * r < d THEN q
        ELSE IF 2 * r > d THEN q + 1
        ELSE IF q % 2 = 0 THEN q ELSE q + 1

\* np.sqrt(n) for n >= 0 (defined exactly on perfect squares)
IsSquare(n) == n >= 0 /\ \E r \in 0..n : r * r = n
Sqrt(n) == CHOOSE r \in 0..n : r * r = n

\* n / d where d divides n
Divides(d, n) == d # 0 /\ n % Abs(d) = 0
ExactDiv(n, d) == IF d > 0 THEN n \div d ELSE -(n \div (-d))

\* the sequence s with its elements evaluated (the same value as s)
Eager(s) == s \o << >>

\* np.dot(u, v) for vectors of at most three components
Dot(u, v) ==
    LET n == Len(u)
    IN  (IF n >= 1 THEN u[1] * v[1] ELSE 0)
        + (IF n >= 2 THEN u[2] * v[2] ELSE 0)
        + (IF n >= 3 THEN u[3] * v[3] ELSE 0)

\* M @ v for a matrix given as the sequence of its rows
MatVec(M, v) == Eager([i \in 1..Len(M) |-> Dot(M[i], v)])

\* np.zeros((n, m))
Zeros(n, m) == Eager([i \in 1..n |-> Eager([j \in 1..m |-> 0])])

Pow3(n) == IF n = 0 THEN 1 ELSE IF n = 1 THEN 3 ELSE IF n = 2 THEN 9 ELSE 27

---------------------------------------------------------------------------
(* Dimension inference and the shared base class *)

\* variant of guess_dimensionality: no default when nothing is supplied
guess_dimensionality_strict(low_, high_, periodic_) ==
    LET dims == (IF low_ # None THEN <<Len(low_)>> ELSE << >>)
                \o (IF high_ # None THEN <<Len(high_)>> ELSE << >>)
                \o (IF periodic_ # None THEN <<Len(periodic_)>> ELSE << >>)
    IN  IF Cardinality(Range(dims)) # 1
        THEN [raise |-> InconsistentDims, dim |-> 0]
        ELSE [raise |-> NoError, dim |-> dims[1]]

\* guess_dimensionality: the dimension, or the ValueError it raises
guess_dimensionality(low_, high_, periodic_) ==
    LET dims == (IF low_ # None THEN <<Len(low_)>> ELSE << >>)
                \o (IF high_ # None THEN <<Len(high_)>> ELSE << >>)
                \o (IF periodic_ # None THEN <<Len(periodic_)>> ELSE << >>)
    IN  IF Len(dims) = 0 THEN [raise |-> NoError, dim |-> 1]
        ELSE IF Cardinality(Range(dims)) # 1
             THEN [raise |-> InconsistentDims, dim |-> 0]
        ELSE [raise |-> NoError, dim |-> dims[1]]

\* BoxBase.__init__: the attributes it sets
BoxBase_init(dim_, periodic_, low_, high_) ==
    LET per == IF periodic_ # None THEN periodic_
               ELSE [i \in 1..dim_ |-> TRUE]
        lo == IF low_ # None THEN low_
              ELSE [i \in 1..dim_ |-> IF per[i] THEN 0 ELSE -Inf]
        hi == IF high_ # None THEN high_
              ELSE [i \in 1..dim_ |-> IF per[i] THEN 1 ELSE Inf]
        len == [i \in 1..dim_ |-> FloatSub(hi[i], lo[i])]
    IN  [dim |-> dim_,
         periodic |-> per,
         dof |-> [i \in 1..dim_ |-> IF per[i] THEN 1 ELSE 0],
         box_matrix |-> Zeros(dim_, dim_),
         low |-> lo,
         high |-> hi,
         length |-> len,
         ilength |-> [i \in 1..dim_ |-> FloatInv(len[i])]]

---------------------------------------------------------------------------
(* The orthogonal box *)

\* the attributes after Box.__init__
Box_init(dim_, periodic_, low_, high_) ==
    LET base == BoxBase_init(dim_, periodic_, low_, high_)
    IN  [base EXCEPT !.box_matrix =
             [i \in 1..dim_ |->
                 [j \in 1..dim_ |-> IF i = j THEN base.length[i] ELSE 0]]]

\* variant of Box_wrap_coord: low is not added back
Box_wrap_coord_nolow(x, i) ==
    IF periodic[i]
    THEN LET relpos == x - low[i]
             delta == IF relpos < 0 \/ relpos >= length[i]
                      THEN relpos - Floor(relpos * ilength[i].num,
                                          ilength[i].den) * length[i]
                      ELSE relpos
         IN  delta
    ELSE x

\* one coordinate of Box.pbc_wrap, in dimension i
Box_wrap_coord(x, i) ==
    IF periodic[i]
    THEN LET relpos == x - low[i]
             delta == IF relpos < 0 \/ relpos >= length[i]
                      THEN relpos - Floor(relpos * ilength[i].num,
                                          ilength[i].den) * length[i]
                      ELSE relpos
         IN  delta + low[i]
    ELSE x

\* Box.pbc_wrap(pos), pos a batch of positions
Box_pbc_wrap(pos) ==
    Eager([r \in 1..Len(pos) |->
              Eager([i \in 1..dim |-> Box_wrap_coord(pos[r][i], i)])])

\* variant of Box_dist_coord: np.floor in place of np.rint
Box_dist_coord_floor(d, i) ==
    IF periodic[i] /\ 2 * Abs(d) > length[i]
    THEN d - Floor(d * ilength[i].num, ilength[i].den) * length[i]
    ELSE d

\* one component of Box.pbc_dist, in dimension i
Box_dist_coord(d, i) ==
    IF periodic[i] /\ 2 * Abs(d) > length[i]
    THEN d - Rint(d * ilength[i].num, ilength[i].den) * length[i]
    ELSE d

\* Box.pbc_dist(distance), distance one displacement vector
Box_pbc_dist(distance) ==
    Eager([i \in 1..dim |-> Box_dist_coord(distance[i], i)])

\* variant of Box_dist_matrix_coord: a half is rounded away from zero
Box_dist_matrix_coord_away(d, i) ==
    IF periodic[i] /\ 2 * Abs(d) >= length[i]
    THEN d - RintHalfAway(d * ilength[i].num, ilength[i].den) * length[i]
    ELSE d

\* one component of a row of Box.pbc_dist_matrix, in dimension i
Box_dist_matrix_coord(d, i) ==
    IF periodic[i] /\ 2 * Abs(d) >= length[i]
    THEN d - Rint(d * ilength[i].num, ilength[i].den) * length[i]
    ELSE d

\* Box.pbc_dist_matrix(distance), distance a batch of displacement vectors:
\* the returned array pbcdist, and the caller's array distance after the
\* call (the corrections are applied in place to pbcdist, a copy)
Box_pbc_dist_matrix(distance) ==
    [pbcdist |-> Eager([r \in 1..Len(distance) |->
                     Eager([i \in 1..dim |->
                         Box_dist_matrix_coord(distance[r][i], i)])]),
     distance |-> distance]

---------------------------------------------------------------------------
(* The triclinic box *)

\* np.cos(np.radians(angle)) for the angles of the model: 37, 53, 61 and 127
\* stand for the angles whose cosines are exactly 4/5, 3/5, 12/25 and -3/5
Cos(angle) ==
    CASE angle = 0 -> Frac(25, 25)
      [] angle = 37 -> Frac(20, 25)
      [] angle = 53 -> Frac(15, 25)
      [] angle = 61 -> Frac(12, 25)
      [] angle = 127 -> Frac(-15, 25)
      [] OTHER -> Frac(0, 25)

\* cosine(angle): 0.0 when the angle is close to 90
cosine(angle) == IF angle = 90 THEN Frac(0, 1) ELSE Cos(angle)

\* the entries of box_matrix_from_angles, one operator per assignment
Entry01(len, gamma_) ==
    LET c == cosine(gamma_) IN ExactDiv(len[2] * c.num, c.den)
Entry11(len, gamma_) ==
    Sqrt(len[2] * len[2] - Entry01(len, gamma_) * Entry01(len, gamma_))
Entry02(len, beta_) ==
    LET c == cosine(beta_) IN ExactDiv(len[3] * c.num, c.den)
Entry12(len, alpha_, beta_, gamma_) ==
    LET c == cosine(alpha_)
    IN  ExactDiv(len[2] * len[3] * c.num
                     - c.den * Entry01(len, gamma_) * Entry02(len, beta_),
                 c.den * Entry11(len, gamma_))
Entry22(len, alpha_, beta_, gamma_) ==
    Sqrt(len[3] * len[3] - Entry02(len, beta_) * Entry02(len, beta_)
         - Entry12(len, alpha_, beta_, gamma_) * Entry12(len, alpha_, beta_, gamma_))

\* box_matrix_from_angles(length, alpha, beta, gamma, dim), dim >= 2
box_matrix_from_angles(len, alpha_, beta_, gamma_, dim_) ==
    Eager([i \in 1..dim_ |-> Eager([j \in 1..dim_ |->
        CASE i = 1 /\ j = 1 -> len[1]
          [] i = 1 /\ j = 2 -> Entry01(len, gamma_)
          [] i = 2 /\ j = 2 -> Entry11(len, gamma_)
          [] i = 1 /\ j = 3 -> Entry02(len, beta_)
          [] i = 2 /\ j = 3 -> Entry12(len, alpha_, beta_, gamma_)
          [] i = 3 /\ j = 3 -> Entry22(len, alpha_, beta_, gamma_)
          [] OTHER -> 0])])

\* the inputs for which every entry of the matrix is a number of the grid
\* (no NaN, no infinity, no irrational square root, no fraction)
Representable(len, alpha_, beta_, gamma_, dim_) ==
    /\ \A i \in 1..dim_ : IsFinite(len[i]) /\ len[i] > 0
    /\ LET c == cosine(gamma_) IN Divides(c.den, len[2] * c.num)
    /\ IsSquare(len[2] * len[2] - Entry01(len, gamma_) * Entry01(len, gamma_))
    /\ dim_ > 2 =>
         /\ LET c == cosine(beta_) IN Divides(c.den, len[3] * c.num)
         /\ Entry11(len, gamma_) # 0
         /\ LET c == cosine(alpha_)
            IN  Divides(c.den * Entry11(len, gamma_),
                        len[2] * len[3] * c.num
                          - c.den * Entry01(len, gamma_) * Entry02(len, beta_))
         /\ IsSquare(len[3] * len[3] - Entry02(len, beta_) * Entry02(len, beta_)
                     - Entry12(len, alpha_, beta_, gamma_)
                         * Entry12(len, alpha_, beta_, gamma_))

\* the determinant of an upper triangular matrix
Det(M) == LET P[k \in 0..Len(M)] == IF k = 0 THEN 1 ELSE P[k - 1] * M[k][k]
          IN  P[Len(M)]

\* np.linalg.inv(M) of an upper triangular matrix with Det(M) # 0, as the
\* fraction (adjugate matrix) / determinant
Inverse(M) ==
    LET n == Len(M)
        adj == IF n = 2
               THEN << <<M[2][2], -M[1][2]>>,
                       <<0, M[1][1]>> >>
               ELSE << <<M[2][2] * M[3][3], -M[1][2] * M[3][3],
                         M[1][2] * M[2][3] - M[1][3] * M[2][2]>>,
                       <<0, M[1][1] * M[3][3], -M[2][3] * M[1][1]>>,
                       <<0, 0, M[1][1] * M[2][2]>> >>
    IN  [num |-> adj, den |-> Det(M)]

\* the k-th tuple of itertools.product([-1, 0, 1], repeat=n), k = 1..3^n
ProductIndex(k, n) ==
    Eager([i \in 1..n |-> (((k - 1) \div Pow3(n - i)) % 3) - 1])

Translations(M) ==
    Eager([k \in 1..Pow3(Len(M)) |-> MatVec(M, ProductIndex(k, Len(M)))])

\* np.min(np.diagonal(M))
MinDiagonal(M) ==
    CHOOSE m \in {M[i][i] : i \in 1..Len(M)} : \A i \in 1..Len(M) : m <= M[i][i]

\* self.update_box_matrix(length, alpha, beta, gamma): the attributes after
\* it and the exception it ends with.  np.linalg.inv raises on a singular
\* matrix, after self.box_matrix has been assigned.
update_box_matrix(self, len, alpha_, beta_, gamma_) ==
    LET M == box_matrix_from_angles(len, alpha_, beta_, gamma_, self.dim)
    IN  IF Det(M) = 0
        THEN [raise |-> SingularMatrix,
              box_matrix |-> M,
              box_matrix_inv |-> self.box_matrix_inv,
              translations |-> self.translations,
              shortest_width |-> self.shortest_width,
              shortest_width_half |-> self.shortest_width_half]
        ELSE [raise |-> NoError,
              box_matrix |-> M,
              box_matrix_inv |-> Inverse(M),
              translations |-> Translations(M),
              shortest_width |-> MinDiagonal(M),
              shortest_width_half |-> Frac(MinDiagonal(M), 2)]

\* variant of IsTriclinic: no angle is 90
IsTriclinic_noright(alpha_, beta_, gamma_) ==
    alpha_ # 90 /\ beta_ # 90 /\ gamma_ # 90

\* tricl of TriclinicBox.__init__
IsTriclinic(alpha_, beta_, gamma_) ==
    ~(alpha_ = beta_ /\ beta_ = gamma_ /\ gamma_ = 90)

\* frac = v @ box_matrix_inv.T, the numerators over box_matrix_inv.den
FracNum(v) == MatVec(box_matrix_inv.num, v)

\* TriclinicBox.pbc_wrap on one position
Tri_wrap_row(v) ==
    LET f == FracNum(v)
        g == Eager([i \in 1..dim |-> f[i] - Floor(f[i], box_matrix_inv.den)
                                              * box_matrix_inv.den])
        w == MatVec(box_matrix, g)
    IN  Eager([i \in 1..dim |-> ExactDiv(w[i], box_matrix_inv.den) + low[i]])

\* the wrapped position is a number of the grid
WrapRepresentable(v) ==
    LET f == FracNum(v)
        g == Eager([i \in 1..dim |-> f[i] - Floor(f[i], box_matrix_inv.den)
                                              * box_matrix_inv.den])
        w == MatVec(box_matrix, g)
    IN  \A i \in 1..dim : Divides(box_matrix_inv.den, w[i])

\* TriclinicBox.pbc_wrap(pos), pos a batch of positions
Tri_pbc_wrap(pos) == Eager([r \in 1..Len(pos) |-> Tri_wrap_row(pos[r])])

VecAdd(u, v) == Eager([i \in DOMAIN u |-> u[i] + v[i]])
VecSub(u, v) == Eager([i \in DOMAIN u |-> u[i] - v[i]])

\* np.sqrt(s) < h for a fraction h
SqrtLess(s, h) == h.num > 0 /\ s * h.den * h.den < h.num * h.num

\* np.argmin(lengths): the first index of the minimum
ArgMin(lengths) ==
    LET values == Range(lengths)
        least == CHOOSE m \in values : \A x \in values : m <= x
    IN  CHOOSE k \in DOMAIN lengths :
            lengths[k] = least /\ \A j \in 1..(k - 1) : lengths[j] # least

\* dist of TriclinicBox.pbc_dist: distance - M @ rint(M^-1 @ distance)
Tri_dist0(distance) ==
    LET f == FracNum(distance)
        n == Eager([i \in 1..dim |-> Rint(f[i], box_matrix_inv.den)])
    IN  VecSub(distance, MatVec(box_matrix, n))

\* variant of Tri_pbc_dist: the immediate path below the full shortest width
Tri_pbc_dist_fullwidth(distance) ==
    LET dist == Tri_dist0(distance)
        smallest == Dot(dist, dist)
        images == Eager([k \in DOMAIN translations |->
                            VecAdd(dist, translations[k])])
        lengths == Eager([k \in DOMAIN translations |->
                             Dot(images[k], images[k])])
        idx == ArgMin(lengths)
    IN  IF SqrtLess(smallest, Frac(shortest_width, 1)) THEN dist
        ELSE IF lengths[idx] < smallest THEN images[idx]
        ELSE dist

\* TriclinicBox.pbc_dist(distance)
Tri_pbc_dist(distance) ==
    LET dist == Tri_dist0(distance)
        smallest == Dot(dist, dist)
        images == Eager([k \in DOMAIN translations |->
                            VecAdd(dist, translations[k])])
        lengths == Eager([k \in DOMAIN translations |->
                             Dot(images[k], images[k])])
        idx == ArgMin(lengths)
    IN  IF SqrtLess(smallest, shortest_width_half) THEN dist
        ELSE IF lengths[idx] < smallest THEN images[idx]
        ELSE dist

\* TriclinicBox.pbc_dist_matrix(distance)
Tri_pbc_dist_matrix(distance) ==
    Eager([r \in 1..Len(distance) |-> Tri_pbc_dist(distance[r])])

---------------------------------------------------------------------------
(* Inputs *)

Dims == 1..3
Coords == -MaxCoord..MaxCoord
Vectors(n) == [1..n -> Coords]

\* the batches with first row v: row r is v for odd r and -v for even r
Rows(v, n) ==
    Eager([r \in 1..n |->
              Eager([i \in DOMAIN v |-> IF r % 2 = 1 THEN v[i] ELSE -v[i]])])
Batches(n) == {Rows(v, k) : v \in Vectors(n), k \in 1..MaxRows}

OptionalVectors(S) == {None} \cup UNION {[1..n -> S] : n \in Dims}

BoxLowArgs == OptionalVectors({0, 1})
BoxHighArgs == OptionalVectors({3})
PeriodicArgs == OptionalVectors(BOOLEAN)

TriLowArgs == {None, <<0>>, <<0, 0>>, <<4, 0>>, <<0, 0, 0>>}
TriHighArgs == {None, <<5>>, <<5, 10>>, <<10, 10>>, <<5, 5, 10>>}
TriPeriodicArgs == {None, <<TRUE>>, <<TRUE, FALSE>>, <<FALSE, TRUE, TRUE>>}
AlphaArgs == {None, Some(61)}
BetaArgs == {None, Some(90)}
GammaArgs == {None, Some(0), Some(37), Some(53), Some(90), Some(127)}

\* the arguments of update_box_matrix on a box of dimension n
UpdateLengths(n) == IF n = 2 THEN {<<1, 10>>} ELSE {<<5, 5, 10>>}
UpdateAngles == {<<90, 90, 37>>, <<90, 90, 0>>, <<0, 90, 90>>}

\* the lengths are positive (assumed by the source, not enforced)
PositiveLengths(len) == \A i \in DOMAIN len : len[i] > 0

IsQuery(op) == op \in {"pbc_wrap", "pbc_dist", "pbc_dist_matrix"}

---------------------------------------------------------------------------
(* State and operations *)

Init ==
    /\ cls = "none"
    /\ raised = NoError
    /\ dim = None /\ periodic = None /\ dof = None
    /\ low = None /\ high = None /\ length = None /\ ilength = None
    /\ box_matrix = None
    /\ alpha = None /\ beta = None /\ gamma = None
    /\ box_matrix_inv = None /\ translations = None
    /\ shortest_width = None /\ shortest_width_half = None
    /\ call = [op |-> "none", args |-> None, ret |-> None]

SetBase(b) ==
    /\ dim' = b.dim
    /\ periodic' = b.periodic
    /\ dof' = b.dof
    /\ low' = b.low
    /\ high' = b.high
    /\ length' = b.length
    /\ ilength' = b.ilength

\* Box(low, high, periodic)
ConstructBox ==
    /\ cls = "none" /\ call.op = "none"
    /\ \E low_ \in BoxLowArgs, high_ \in BoxHighArgs, periodic_ \in PeriodicArgs :
         LET g == guess_dimensionality(low_, high_, periodic_)
             a == [low |-> low_, high |-> high_, periodic |-> periodic_]
         IN  IF g.raise # NoError
             THEN /\ raised' = g.raise
                  /\ call' = [op |-> "Box", args |-> a, ret |-> None]
                  /\ UNCHANGED <<cls, baseVars, box_matrix, triVars>>
             ELSE LET b == Box_init(g.dim, periodic_, low_, high_)
                  IN  /\ PositiveLengths(b.length)
                      /\ cls' = "Box"
                      /\ SetBase(b)
                      /\ box_matrix' = b.box_matrix
                      /\ call' = [op |-> "Box", args |-> a, ret |-> "Box"]
                      /\ UNCHANGED <<raised, triVars>>

\* box.pbc_wrap(pos) on an orthogonal box
BoxPbcWrap ==
    /\ cls = "Box" /\ ~IsQuery(call.op)
    /\ \E pos \in Batches(dim) :
           call' = [op |-> "pbc_wrap", args |-> pos, ret |-> Box_pbc_wrap(pos)]
    /\ UNCHANGED <<cls, raised, baseVars, box_matrix, triVars>>

\* box.pbc_dist(distance) on an orthogonal box
BoxPbcDist ==
    /\ cls = "Box" /\ ~IsQuery(call.op)
    /\ \E distance \in Vectors(dim) :
           call' = [op |-> "pbc_dist", args |-> distance,
                    ret |-> Box_pbc_dist(distance)]
    /\ UNCHANGED <<cls, raised, baseVars, box_matrix, triVars>>

\* box.pbc_dist_matrix(distance) on an orthogonal box
BoxPbcDistMatrix ==
    /\ cls = "Box" /\ ~IsQuery(call.op)
    /\ \E distance \in Batches(dim) :
           call' = [op |-> "pbc_dist_matrix", args |-> distance,
                    ret |-> Box_pbc_dist_matrix(distance).pbcdist,
                    args_after |-> Box_pbc_dist_matrix(distance).distance]
    /\ UNCHANGED <<cls, raised, baseVars, box_matrix, triVars>>

BoxNext ==
    \/ ConstructBox
    \/ BoxPbcWrap
    \/ BoxPbcDist
    \/ BoxPbcDistMatrix

BoxSpec == Init /\ [][BoxNext]_vars

SetMatrix(u) ==
    /\ box_matrix' = u.box_matrix
    /\ box_matrix_inv' = u.box_matrix_inv
    /\ translations' = u.translations
    /\ shortest_width' = u.shortest_width
    /\ shortest_width_half' = u.shortest_width_half

\* TriclinicBox(low, high, periodic, alpha, beta, gamma)
ConstructTriclinic ==
    /\ cls = "none" /\ call.op = "none"
    /\ \E low_ \in TriLowArgs, high_ \in TriHighArgs, periodic_ \in TriPeriodicArgs,
          alpha_ \in AlphaArgs, beta_ \in BetaArgs, gamma_ \in GammaArgs :
         LET g == guess_dimensionality(low_, high_, periodic_)
             a == [low |-> low_, high |-> high_, periodic |-> periodic_,
                   alpha |-> alpha_, beta |-> beta_, gamma |-> gamma_]
         IN  IF g.raise # NoError
             THEN /\ raised' = g.raise
                  /\ call' = [op |-> "TriclinicBox", args |-> a, ret |-> None]
                  /\ UNCHANGED <<cls, baseVars, box_matrix, triVars>>
             ELSE LET b == BoxBase_init(g.dim, periodic_, low_, high_)
                      al == IF alpha_ # None THEN alpha_[1] ELSE 90
                      be == IF beta_ # None THEN beta_[1] ELSE 90
                      ga == IF gamma_ # None THEN gamma_[1] ELSE 90
                      tricl == IsTriclinic(al, be, ga)
                  IN  /\ SetBase(b)
                      /\ alpha' = al /\ beta' = be /\ gamma' = ga
                      /\ IF tricl /\ g.dim > 1
                         THEN /\ Representable(b.length, al, be, ga, g.dim)
                              /\ LET self == [dim |-> g.dim,
                                              box_matrix_inv |-> Zeros(g.dim, g.dim),
                                              translations |-> Zeros(Pow3(g.dim), g.dim),
                                              shortest_width |-> None,
                                              shortest_width_half |-> None]
                                     u == update_box_matrix(self, b.length, al, be, ga)
                                 IN  /\ SetMatrix(u)
                                     /\ raised' = u.raise
                                     /\ cls' = IF u.raise = NoError
                                               THEN "TriclinicBox" ELSE "none"
                                     /\ call' = [op |-> "TriclinicBox", args |-> a,
                                                 ret |-> IF u.raise = NoError
                                                         THEN "TriclinicBox" ELSE None]
                         ELSE /\ box_matrix' = Zeros(g.dim, g.dim)
                              /\ box_matrix_inv' = Zeros(g.dim, g.dim)
                              /\ translations' = Zeros(Pow3(g.dim), g.dim)
                              /\ raised' = NotTriclinic
                              /\ call' = [op |-> "TriclinicBox", args |-> a,
                                          ret |-> None]
                              /\ UNCHANGED <<cls, shortest_width, shortest_width_half>>

\* box.update_box_matrix(length, alpha, beta, gamma)
UpdateBoxMatrix ==
    /\ cls = "TriclinicBox" /\ ~IsQuery(call.op)
    /\ \E len \in UpdateLengths(dim), ang \in UpdateAngles :
         /\ Representable(len, ang[1], ang[2], ang[3], dim)
         /\ LET self == [dim |-> dim,
                         box_matrix_inv |-> box_matrix_inv,
                         translations |-> translations,
                         shortest_width |-> shortest_width,
                         shortest_width_half |-> shortest_width_half]
                u == update_box_matrix(self, len, ang[1], ang[2], ang[3])
            IN  /\ SetMatrix(u)
                /\ raised' = u.raise
                /\ call' = [op |-> "update_box_matrix",
                            args |-> [length |-> len, alpha |-> ang[1],
                                      beta |-> ang[2], gamma |-> ang[3]],
                            ret |-> None]
    /\ UNCHANGED <<cls, baseVars, alpha, beta, gamma>>

\* box.pbc_wrap(pos) on a triclinic box
TriPbcWrap ==
    /\ cls = "TriclinicBox" /\ ~IsQuery(call.op)
    /\ \E pos \in Batches(dim) :
         /\ \A r \in 1..Len(pos) : WrapRepresentable(pos[r])
         /\ call' = [op |-> "pbc_wrap", args |-> pos, ret |-> Tri_pbc_wrap(pos)]
    /\ raised' = NoError
    /\ UNCHANGED <<cls, baseVars, box_matrix, triVars>>

\* box.pbc_dist(distance) on a triclinic box
TriPbcDist ==
    /\ cls = "TriclinicBox" /\ ~IsQuery(call.op)
    /\ \E distance \in Vectors(dim) :
           call' = [op |-> "pbc_dist", args |-> distance,
                    ret |-> Tri_pbc_dist(distance)]
    /\ raised' = NoError
    /\ UNCHANGED <<cls, baseVars, box_matrix, triVars>>

\* box.pbc_dist_matrix(distance) on a triclinic box
TriPbcDistMatrix ==
    /\ cls = "TriclinicBox" /\ ~IsQuery(call.op)
    /\ \E distance \in Batches(dim) :
           call' = [op |-> "pbc_dist_matrix", args |-> distance,
                    ret |-> Tri_pbc_dist_matrix(distance)]
    /\ raised' = NoError
    /\ UNCHANGED <<cls, baseVars, box_matrix, triVars>>

TriNext ==
    \/ ConstructTriclinic
    \/ UpdateBoxMatrix
    \/ TriPbcWrap
    \/ TriPbcDist
    \/ TriPbcDistMatrix

TriSpec == Init /\ [][TriNext]_vars

Next == BoxNext \/ TriNext

Spec == Init /\ [][Next]_vars

---------------------------------------------------------------------------
(* Properties of the orthogonal box, checked under BoxSpec *)

AfterBox(op) == cls = "Box" /\ call.op = op

\* C1: Box.pbc_dist returns, in each periodic dimension i with length[i] > 0,
\* d[i] - k * length[i] for an integer k, of absolute value at most
\* 0.5 * length[i]; in each non-periodic dimension it returns d[i].
C1_BoxPbcDistMinimumImage ==
    AfterBox("pbc_dist") =>
        \A i \in 1..dim :
            IF periodic[i]
            THEN length[i] > 0 =>
                   /\ \E k \in -(2 * MaxCoord)..(2 * MaxCoord) :
                          call.ret[i] = call.args[i] - k * length[i]
                   /\ 2 * Abs(call.ret[i]) <= length[i]
            ELSE call.ret[i] = call.args[i]

\* a displacement beyond half the length was folded (as 9.5 to -0.5 in a box
\* of length 10) next to a long displacement in a non-periodic dimension
C1_Witness ==
    /\ AfterBox("pbc_dist")
    /\ \E i \in 1..dim :
           /\ periodic[i] /\ 2 * call.args[i] > length[i]
           /\ call.ret[i] < 0
    /\ \E j \in 1..dim : ~periodic[j] /\ Abs(call.args[j]) = MaxCoord

\* C4: Box.pbc_wrap returns an array of the shape of its input whose
\* coordinates in a periodic dimension i (low[i] finite, length[i] > 0) lie in
\* [low[i], low[i] + length[i]) and equal
\* x - floor((x - low[i]) / length[i]) * length[i].
C4_BoxPbcWrapRange ==
    AfterBox("pbc_wrap") =>
        /\ Len(call.ret) = Len(call.args)
        /\ \A r \in 1..Len(call.args) :
               /\ Len(call.ret[r]) = Len(call.args[r])
               /\ \A i \in 1..dim :
                      (periodic[i] /\ IsFinite(low[i]) /\ length[i] > 0) =>
                          /\ low[i] <= call.ret[r][i]
                          /\ call.ret[r][i] < low[i] + length[i]
                          /\ call.ret[r][i] =
                                 call.args[r][i]
                                 - ((call.args[r][i] - low[i]) \div length[i])
                                       * length[i]

\* positions above and below a box whose lower bound is not 0 were folded
C4_Witness ==
    /\ AfterBox("pbc_wrap")
    /\ Len(call.args) = 2
    /\ \E i \in 1..dim :
           /\ periodic[i] /\ low[i] # 0
           /\ call.args[1][i] >= low[i] + length[i]
           /\ call.args[2][i] < low[i]
           /\ call.ret[1][i] # call.args[1][i]
           /\ call.ret[2][i] # call.args[2][i]

SuppliedLengths(a) ==
    (IF a.low # None THEN {Len(a.low)} ELSE {})
    \cup (IF a.high # None THEN {Len(a.high)} ELSE {})
    \cup (IF a.periodic # None THEN {Len(a.periodic)} ELSE {})

\* C8: the dimension of a constructed box is the common length of the
\* supplied low/high/periodic, and 1 when none is supplied; when the supplied
\* ones disagree, construction raises the ValueError and builds no state.
\* An omitted periodic is all true; an omitted low/high is 0/1 in each
\* periodic dimension.
C8_DimensionInference ==
    call.op = "Box" =>
        LET a == call.args
            lens == SuppliedLengths(a)
        IN  /\ Cardinality(lens) > 1 =>
                  /\ raised = InconsistentDims
                  /\ cls = "none" /\ call.ret = None
                  /\ dim = None /\ periodic = None /\ low = None
                  /\ high = None /\ length = None /\ box_matrix = None
            /\ Cardinality(lens) = 1 =>
                  raised = NoError /\ cls = "Box" /\ dim \in lens
            /\ lens = {} => raised = NoError /\ cls = "Box" /\ dim = 1
            /\ cls = "Box" =>
                  /\ a.periodic = None => \A i \in 1..dim : periodic[i]
                  /\ a.low = None =>
                         \A i \in 1..dim : periodic[i] => low[i] = 0
                  /\ a.high = None =>
                         \A i \in 1..dim : periodic[i] => high[i] = 1

\* Box(high=[h, h, h]): three dimensions, all periodic, low = [0, 0, 0]
C8_Witness ==
    /\ call.op = "Box" /\ cls = "Box"
    /\ call.args.low = None /\ call.args.periodic = None
    /\ Len(call.args.high) = 3
    /\ dim = 3 /\ periodic = <<TRUE, TRUE, TRUE>> /\ low = <<0, 0, 0>>

\* C10: row r of Box.pbc_dist_matrix(vectors) equals
\* Box.pbc_dist(vectors[r]), also where a component is exactly half the
\* length, and the caller's batch is not modified.
C10_DistMatrixRowsAgree ==
    AfterBox("pbc_dist_matrix") =>
        /\ Len(call.ret) = Len(call.args)
        /\ \A r \in 1..Len(call.args) : call.ret[r] = Box_pbc_dist(call.args[r])
        /\ call.args_after = call.args

\* a component of a row is exactly half the length of its periodic dimension
C10_Witness ==
    /\ AfterBox("pbc_dist_matrix")
    /\ Len(call.args) = 2
    /\ \E i \in 1..dim :
           /\ periodic[i]
           /\ 2 * call.args[1][i] = length[i]
           /\ 2 * call.args[2][i] = -length[i]

---------------------------------------------------------------------------
(* Properties of the triclinic box, checked under TriSpec *)

AfterTri(op) == cls = "TriclinicBox" /\ call.op = op

SquaredLength(v) == Dot(v, v)

\* the rows a query was called on, and the rows it returned
QueryRows(x) == IF call.op = "pbc_dist" THEN <<x>> ELSE x

\* C2: the vector returned by TriclinicBox.pbc_dist for d is not longer
\* than d0 + t for any t of the precomputed translations, where
\* d0 = d - M * round(M^-1 * d); on the immediate path (|d0| below half the
\* shortest width) and on the search path.
C2_TriPbcDistShortestOfTranslations ==
    (AfterTri("pbc_dist") \/ AfterTri("pbc_dist_matrix")) =>
        \A r \in DOMAIN QueryRows(call.args) :
            LET d0 == Tri_dist0(QueryRows(call.args)[r])
                out == QueryRows(call.ret)[r]
            IN  \A k \in DOMAIN translations :
                    SquaredLength(out)
                        <= SquaredLength(VecAdd(d0, translations[k]))

\* the search path was taken and found an image shorter than d0
C2_Witness ==
    /\ AfterTri("pbc_dist")
    /\ raised = NoError
    /\ ~SqrtLess(SquaredLength(Tri_dist0(call.args)), shortest_width_half)
    /\ call.ret # Tri_dist0(call.args)
    /\ SquaredLength(call.ret) < SquaredLength(Tri_dist0(call.args))

GivenOr90(x) == IF x = None THEN 90 ELSE x[1]

\* C7: TriclinicBox(...) raises the "not a valid triclinic box" ValueError
\* when alpha = beta = gamma = 90 (given or defaulted) or the dimension is
\* at most 1, without running update_box_matrix and without returning a box;
\* otherwise it does not raise it and builds the matrix.
C7_TriclinicConstruction ==
    (call.op = "TriclinicBox" /\ raised # InconsistentDims) =>
        LET al == GivenOr90(call.args.alpha)
            be == GivenOr90(call.args.beta)
            ga == GivenOr90(call.args.gamma)
        IN  IF (al = 90 /\ be = 90 /\ ga = 90) \/ dim <= 1
            THEN /\ raised = NotTriclinic
                 /\ cls = "none" /\ call.ret = None
                 /\ box_matrix = Zeros(dim, dim)
                 /\ box_matrix_inv = Zeros(dim, dim)
                 /\ translations = Zeros(Pow3(dim), dim)
                 /\ shortest_width = None /\ shortest_width_half = None
            ELSE /\ raised # NotTriclinic
                 /\ box_matrix = box_matrix_from_angles(length, al, be, ga, dim)

\* a two-dimensional box with all angles omitted was refused
C7_Witness ==
    /\ call.op = "TriclinicBox" /\ raised = NotTriclinic
    /\ dim = 2
    /\ call.args.alpha = None /\ call.args.beta = None /\ call.args.gamma = None

Identity(n) == [i \in 1..n |-> [j \in 1..n |-> IF i = j THEN 1 ELSE 0]]

\* the product of two square matrices
MatMul(A, B) ==
    [i \in 1..Len(A) |-> [j \in 1..Len(A) |->
        Dot(A[i], [k \in 1..Len(A) |-> B[k][j]])]]

\* the derived attributes are those of the current box_matrix
Rebuilt ==
    /\ box_matrix_inv.den # 0
    /\ MatMul(box_matrix, box_matrix_inv.num)
           = [i \in 1..dim |-> [j \in 1..dim |->
                 box_matrix_inv.den * Identity(dim)[i][j]]]
    /\ Len(translations) = Pow3(dim)
    /\ \A n \in [1..dim -> {-1, 0, 1}] :
           \E k \in DOMAIN translations : translations[k] = MatVec(box_matrix, n)
    /\ \A i \in 1..dim : shortest_width <= box_matrix[i][i]
    /\ \E i \in 1..dim : shortest_width = box_matrix[i][i]
    /\ 2 * shortest_width_half.num = shortest_width * shortest_width_half.den

\* C9: in every state of a constructed TriclinicBox, after any sequence of
\* update_box_matrix calls, box_matrix_inv, translations, shortest_width and
\* shortest_width_half are those of the current box_matrix.
C9_RebuildConsistency == cls = "TriclinicBox" => Rebuilt

\* the images d + M * n searched for a shorter one have |n[i]| <= MaxImage
MaxImage == 3

\* C3: no periodic image d + M * n, n any integer vector, is strictly
\* shorter than the vector TriclinicBox.pbc_dist returns for d (M not
\* singular, the derived attributes those of M).
C3_TrueMinimumImage ==
    (AfterTri("pbc_dist") /\ Det(box_matrix) # 0 /\ Rebuilt) =>
        \A n \in [1..dim -> -MaxImage..MaxImage] :
            SquaredLength(call.ret)
                <= SquaredLength(VecAdd(call.args, MatVec(box_matrix, n)))

\* C5: pbc_wrap(pbc_wrap(x)) = pbc_wrap(x), for the orthogonal and for the
\* triclinic box, whatever low is.
C5_WrapIdempotent ==
    /\ AfterBox("pbc_wrap") => Box_pbc_wrap(call.ret) = call.ret
    /\ (AfterTri("pbc_wrap") /\ Rebuilt) => Tri_pbc_wrap(call.ret) = call.ret

\* C6: pbc_wrap, pbc_dist and pbc_dist_matrix return, in each non-periodic
\* dimension, the component of their input, for both kinds of box.
C6_NonPeriodicUntouched ==
    (cls \in {"Box", "TriclinicBox"} /\ IsQuery(call.op)
     /\ (cls = "TriclinicBox" => Rebuilt)) =>
        \A r \in DOMAIN QueryRows(call.args) :
            \A i \in 1..dim :
                ~periodic[i] =>
                    QueryRows(call.ret)[r][i] = QueryRows(call.args)[r][i]

===========================================================================
